---- MODULE Spec2Model ----
(***************************************************************************)
(* A model of the Web3 RAG engine (TheWeb3_AGENT/web3_rag):                *)
(*   - the heading- and code-block-aware chunker of src/rag_engine.py,     *)
(*   - Web3RAGEngine.chat / chat_stream / query,                           *)
(*   - the /chat route of app/api/routes.py with its streaming generator,  *)
(* and of the lifecycle of the ceres AIIntelligentAgent                    *)
(* (ceres-protocol/services/ai-agent).                                     *)
(*                                                                         *)
(* A text is a sequence of characters; a character is a one-element string *)
(* ("\n" is the line break).  The specifications share the variables:      *)
(*   ChunkSpec   one run of split_text_into_chunks over a bounded document,*)
(*   DocSpec     one run of split_documents_into_chunks,                   *)
(*   ServeSpec   one request, through the /chat route or straight into     *)
(*               Web3RAGEngine.chat,                                       *)
(*   TimingSpec  Web3RAGEngine.chat under every run of the wall clock,     *)
(*   InitSpec    several threads entering chat / chat_stream / query on an *)
(*               engine whose index is not yet loaded,                     *)
(*   AgentSpec   start(), stop() and the mode tasks of one agent.          *)
(***************************************************************************)
EXTENDS Integers, Sequences, FiniteSets, TLC

None == "None"

(***************************************************************************)
(* Bounds of the model.                                                    *)
(***************************************************************************)
MaxLines == 4
MaxChars == 12
MaxOverlap == 4

(***************************************************************************)
(* Python's str operations on character sequences.                         *)
(***************************************************************************)
Whitespace == {" ", "\n", "\t"}

RECURSIVE lstrip(_)
lstrip(s) ==
  IF s # <<>> /\ Head(s) \in Whitespace THEN lstrip(Tail(s)) ELSE s

RECURSIVE rstrip(_)
rstrip(s) ==
  IF s # <<>> /\ s[Len(s)] \in Whitespace
  THEN rstrip(SubSeq(s, 1, Len(s) - 1))
  ELSE s

strip(s) == rstrip(lstrip(s))

startswith(s, p) == Len(s) >= Len(p) /\ SubSeq(s, 1, Len(p)) = p

\* str.splitlines(): no trailing empty line after a final line break.
RECURSIVE splitlines(_)
splitlines(s) ==
  IF s = <<>> THEN <<>>
  ELSE LET brk == {i \in 1..Len(s) : s[i] = "\n"}
       IN IF brk = {} THEN <<s>>
          ELSE LET i == CHOOSE k \in brk : \A j \in brk : k <= j
               IN <<SubSeq(s, 1, i - 1)>> \o splitlines(SubSeq(s, i + 1, Len(s)))

\* sep.join(parts)
RECURSIVE join(_, _)
join(sep, parts) ==
  IF parts = <<>> THEN <<>>
  ELSE IF Len(parts) = 1 THEN parts[1]
  ELSE parts[1] \o sep \o join(sep, Tail(parts))

AllIn(s, lo, hi, class) == \A i \in lo..hi : s[i] \in class

(***************************************************************************)
(* _HEADING_PATTERN and _is_heading.                                       *)
(* "DI" and "ZHANG" name the characters U+7B2C and U+7AE0; "CN" stands for *)
(* a Chinese numeral of the pattern's class.                               *)
(***************************************************************************)
Digits == {"0", "1", "2", "3", "4", "5", "6", "7", "8", "9"}
ChapterNumerals == Digits \cup {"CN"}
RegexSpace == {" ", "\t", "\n"}

\* #{1,6}\s+\S.+
MatchesAtx(s) ==
  \E h \in 1..6 : \E w \in 1..Len(s) :
    /\ Len(s) >= h + w + 2
    /\ AllIn(s, 1, h, {"#"})
    /\ AllIn(s, h + 1, h + w, RegexSpace)
    /\ s[h + w + 1] \notin RegexSpace
    /\ AllIn(s, h + w + 2, Len(s), {c \in {s[i] : i \in 1..Len(s)} : c # "\n"})

\* DI[numerals]+ZHANG\S*
MatchesChapter(s) ==
  /\ Len(s) >= 3
  /\ s[1] = "DI"
  /\ \E z \in 3..Len(s) :
       /\ s[z] = "ZHANG"
       /\ AllIn(s, 2, z - 1, ChapterNumerals)
       /\ \A i \in (z + 1)..Len(s) : s[i] \notin RegexSpace

\* \d+(?:\.\d+){1,3}: digits, then one to three groups of a dot and digits,
\* ending at position e.
RECURSIVE DottedNumberEnds(_, _, _)
DottedNumberEnds(s, from, groups) ==
  \* the positions e such that s[from..e] is \d+ followed by `groups` groups
  LET firstEnds == {e \in from..Len(s) : AllIn(s, from, e, Digits)}
  IN IF groups = 0 THEN firstEnds
     ELSE UNION {IF e + 1 <= Len(s) /\ s[e + 1] = "."
                 THEN DottedNumberEnds(s, e + 2, groups - 1)
                 ELSE {} : e \in firstEnds}

\* \d+(?:\.\d+){1,3}\s+\S.+
MatchesNumbered(s) ==
  \E g \in 1..3 : \E e \in DottedNumberEnds(s, 1, g) : \E w \in 1..Len(s) :
    /\ Len(s) >= e + w + 2
    /\ AllIn(s, e + 1, e + w, RegexSpace)
    /\ s[e + w + 1] \notin RegexSpace
    /\ AllIn(s, e + w + 2, Len(s), {c \in {s[i] : i \in 1..Len(s)} : c # "\n"})

HeadingPattern(s) == MatchesAtx(s) \/ MatchesChapter(s) \/ MatchesNumbered(s)

is_heading(line) ==
  LET stripped == strip(line)
  IN /\ stripped # <<>>
     /\ ~ \E b \in {"-", "*", "+"} : startswith(stripped, <<b, " ">>)
     /\ HeadingPattern(stripped)

\* "BT" names the backtick character.
Fence == <<"BT", "BT", "BT">>

IsFenceLine(line) == startswith(strip(line), Fence)

(***************************************************************************)
(* _split_text_by_headings: the loop over the lines as a scan with the     *)
(* loop's locals as accumulator.  honourFence is TRUE in the source        *)
(* ("not in_code_block and _is_heading(line)").                            *)
(***************************************************************************)
Section(title, lines) ==
  [title |-> IF title = None THEN <<>> ELSE title,
   text |-> strip(join(<<"\n">>, lines))]

RECURSIVE HeadingScan(_, _, _, _)
HeadingScan(lines, i, st, honourFence) ==
  IF i > Len(lines)
  THEN IF st.current_lines # <<>>
       THEN Append(st.sections, Section(st.current_title, st.current_lines))
       ELSE st.sections
  ELSE
    LET line == lines[i]
        stripped == strip(line)
        in_code == IF startswith(stripped, Fence)
                   THEN ~ st.in_code_block ELSE st.in_code_block
        heading == (~ honourFence \/ ~ in_code) /\ is_heading(line)
        flushed == heading /\ st.current_lines # <<>>
        st2 == [sections |->
                  IF flushed
                  THEN Append(st.sections,
                              Section(st.current_title, st.current_lines))
                  ELSE st.sections,
                current_lines |->
                  Append(IF flushed THEN <<>> ELSE st.current_lines, line),
                current_title |->
                  IF heading THEN stripped ELSE st.current_title,
                in_code_block |-> in_code]
    IN HeadingScan(lines, i + 1, st2, honourFence)

HeadingScanInit ==
  [sections |-> <<>>, current_lines |-> <<>>,
   current_title |-> None, in_code_block |-> FALSE]

\* the variant that detects headings inside a fence as well
SplitTextByHeadingsIgnoringFence(t) ==
  HeadingScan(splitlines(t), 1, HeadingScanInit, FALSE)

split_text_by_headings(t) ==
  HeadingScan(splitlines(t), 1, HeadingScanInit, TRUE)

(***************************************************************************)
(* _split_section_blocks.  A block is [type, text]; idx, its position in   *)
(* the returned list, stands for the identity of the Python dict.          *)
(***************************************************************************)
Block(type, lines) == [type |-> type, text |-> strip(join(<<"\n">>, lines))]

flush_paragraph(st) ==
  IF st.paragraph_lines # <<>>
  THEN [st EXCEPT !.blocks = Append(@, Block("text", st.paragraph_lines)),
                  !.paragraph_lines = <<>>]
  ELSE st

RECURSIVE BlockScan(_, _, _)
BlockScan(lines, i, st) ==
  IF i > Len(lines)
  THEN IF st.in_code_block /\ st.code_lines # <<>>
       THEN Append(st.blocks, Block("code", st.code_lines))
       ELSE flush_paragraph(st).blocks
  ELSE
    LET line == lines[i]
        stripped == strip(line)
        st2 ==
          IF startswith(stripped, Fence)
          THEN IF st.in_code_block
               THEN [st EXCEPT
                       !.blocks = Append(@, Block("code",
                                                  Append(st.code_lines, line))),
                       !.code_lines = <<>>,
                       !.in_code_block = FALSE]
               ELSE [flush_paragraph(st) EXCEPT
                       !.in_code_block = TRUE,
                       !.code_lines = <<line>>]
          ELSE IF st.in_code_block
          THEN [st EXCEPT !.code_lines = Append(@, line)]
          ELSE IF stripped = <<>>
          THEN flush_paragraph(st)
          ELSE [st EXCEPT !.paragraph_lines = Append(@, line)]
    IN BlockScan(lines, i + 1, st2)

BlockScanInit ==
  [blocks |-> <<>>, paragraph_lines |-> <<>>,
   code_lines |-> <<>>, in_code_block |-> FALSE]

split_section_blocks(t) ==
  LET kept == SelectSeq(BlockScan(splitlines(t), 1, BlockScanInit),
                        LAMBDA b : b.text # <<>>)
  IN [i \in 1..Len(kept) |->
        [type |-> kept[i].type, text |-> kept[i].text, idx |-> i]]

(***************************************************************************)
(* Helpers of _chunk_blocks.                                               *)
(***************************************************************************)
blocks_to_text(bs) ==
  join(<<"\n", "\n">>,
       [i \in 1..Len(SelectSeq(bs, LAMBDA b : b.text # <<>>)) |->
          SelectSeq(bs, LAMBDA b : b.text # <<>>)[i].text])

RECURSIVE SumLen(_)
SumLen(bs) == IF bs = <<>> THEN 0 ELSE Len(Head(bs).text) + SumLen(Tail(bs))

\* The loop "for block in reversed(blocks_to_scan)" of overlap_text_blocks;
\* acc holds overlap_blocks in scan order (last block first).
\* textOnly and stopBefore are TRUE in the source: "if block['type'] !=
\* 'text': continue" and "if total + block_len > overlap_chars and
\* overlap_blocks: break".
RECURSIVE OverlapScan(_, _, _, _, _, _, _)
OverlapScan(bs, i, total, acc, budget, textOnly, stopBefore) ==
  IF i < 1 THEN acc
  ELSE LET block == bs[i]
           block_len == Len(block.text)
       IN IF textOnly /\ block.type # "text"
          THEN OverlapScan(bs, i - 1, total, acc, budget, textOnly, stopBefore)
          ELSE IF stopBefore /\ total + block_len > budget /\ acc # <<>>
          THEN acc
          ELSE IF total + block_len >= budget
          THEN Append(acc, block)
          ELSE OverlapScan(bs, i - 1, total + block_len, Append(acc, block),
                           budget, textOnly, stopBefore)

Reverse(s) == [i \in 1..Len(s) |-> s[Len(s) + 1 - i]]

\* the variant that takes code blocks as well
OverlapAnyBlocks(blocks_to_scan, budget) ==
  IF budget <= 0 THEN <<>>
  ELSE Reverse(OverlapScan(blocks_to_scan, Len(blocks_to_scan), 0, <<>>,
                           budget, FALSE, TRUE))

\* the variant that stops only once the budget is reached
OverlapUntilReached(blocks_to_scan, budget) ==
  IF budget <= 0 THEN <<>>
  ELSE Reverse(OverlapScan(blocks_to_scan, Len(blocks_to_scan), 0, <<>>,
                           budget, TRUE, FALSE))

\* the variant without "overlap_blocks.reverse()"
OverlapNotReversed(blocks_to_scan, budget) ==
  IF budget <= 0 THEN <<>>
  ELSE OverlapScan(blocks_to_scan, Len(blocks_to_scan), 0, <<>>,
                   budget, TRUE, TRUE)

\* the variant without "if overlap_chars <= 0: return []"
OverlapWithoutGuard(blocks_to_scan, budget) ==
  Reverse(OverlapScan(blocks_to_scan, Len(blocks_to_scan), 0, <<>>,
                      budget, TRUE, TRUE))

overlap_text_blocks(blocks_to_scan, budget) ==
  IF budget <= 0 THEN <<>>
  ELSE Reverse(OverlapScan(blocks_to_scan, Len(blocks_to_scan), 0, <<>>,
                           budget, TRUE, TRUE))


(***************************************************************************)
(* State.                                                                  *)
(***************************************************************************)
VARIABLES
  \* split_text_into_chunks / _chunk_blocks
  text,            \* the document
  max_chars,
  overlap_chars,
  cpc,             \* position in split_text_into_chunks
  sections,        \* _split_text_by_headings(text)
  sec_i,           \* sections consumed so far
  blocks,          \* the blocks of the section being chunked
  blk_i,           \* blocks consumed so far
  current_blocks,
  current_length,
  novl,            \* how many of current_blocks were seeded as overlap
  chunks,          \* _chunk_blocks' chunks, each with the blocks it joins
  out,             \* split_text_into_chunks' chunks
  last_close,      \* the latest "close the chunk and seed the next" step
  \* split_documents_into_chunks
  documents,       \* the documents given
  doc_i,           \* documents consumed so far
  chunk_index,
  chunked_documents,
  \* one request: the /chat route, Web3RAGEngine.chat and chat_stream
  entry,           \* "route": POST /chat; "chat": a direct Web3RAGEngine.chat
  question,
  mode,            \* the mode as given by the caller
  show_sources,
  stream,          \* request.stream
  req_threshold,   \* request.similarity_threshold
  engine_set,      \* app.main.rag_engine is not None
  index,           \* Web3RAGEngine.index
  build_calls,     \* calls of build_index
  retrieval_calls, \* calls of retriever.retrieve
  generation_calls,\* calls of synthesizer.synthesize
  spc,             \* position of the request
  op,              \* the engine method running: "chat" or "chat_stream"
  emode,           \* the mode argument of the engine method
  template,        \* the template _get_text_qa_template chose
  nodes,           \* retriever.retrieve's result
  response,        \* synthesizer.synthesize's result (batch)
  result,          \* Web3RAGEngine.chat's return value
  exc,             \* the exception raised, if any
  events,          \* what event_stream has yielded
  tokens_sent,
  http,            \* the status of the HTTP response
  body,            \* the JSON body of a batch response
  outcome,         \* how the request ended
  clock,           \* what the calls of time.time() return, in call order
  reads,           \* calls of time.time() so far
  retrieval_ms,
  llm_ms,
  \* threads entering the engine while index is None
  tpc,             \* each thread's position
  top,             \* each thread's engine method
  \* the ceres AIIntelligentAgent on one asyncio event loop
  agent_mode,        \* the enabled modes (config.get_enabled_modes())
  enable_monitoring, \* config.monitoring.enable_monitoring
  is_running,        \* AIIntelligentAgent.is_running
  start_time,        \* AIIntelligentAgent.start_time
  mode_is_running,   \* each mode's is_running
  is_monitoring,     \* HealthMonitor.is_monitoring
  task,              \* the asyncio task of each mode and of the monitor
  iterations,        \* loop iterations each task has begun
  start_pc,          \* the start() call that took effect
  start_calls,       \* calls of start() so far
  stop_calls,        \* calls of stop() so far
  stopped            \* stop() has returned on a running agent

chunkVars ==
  <<text, max_chars, overlap_chars, cpc, sections, sec_i, blocks, blk_i,
    current_blocks, current_length, novl, chunks, out, last_close>>

docVars == <<documents, doc_i, chunk_index, chunked_documents>>

serveVars ==
  <<entry, question, mode, show_sources, stream, req_threshold, engine_set,
    spc, op, emode, template, nodes, response, result, exc, events,
    tokens_sent, http, body, outcome, clock, reads, retrieval_ms, llm_ms>>

timeVars == <<clock, reads, retrieval_ms, llm_ms>>

engineVars == <<index, build_calls, retrieval_calls, generation_calls>>

threadVars == <<tpc, top>>

agentVars ==
  <<agent_mode, enable_monitoring, is_running, start_time, mode_is_running,
    is_monitoring, task, iterations, start_pc, start_calls, stop_calls,
    stopped>>

vars == <<chunkVars, docVars, serveVars, engineVars, threadVars, agentVars>>

(***************************************************************************)
(* ChunkSpec: split_text_into_chunks(text, max_chars, overlap_chars).      *)
(***************************************************************************)
\* last_close before any chunk was closed (a closed chunk is never empty)
NoClose == [closed |-> <<>>, overlap |-> <<>>]

LineBlank == <<>>
LineText == <<"x">>
LineHeading == <<"#", " ", "x", "x">>
LineSet == {LineBlank, LineText, Fence, LineHeading}

Documents ==
  {join(<<"\n">>, ls) : ls \in UNION {[1..n -> LineSet] : n \in 0..MaxLines}}

ChunkIdle ==
  /\ text = <<>> /\ max_chars = 1 /\ overlap_chars = 0
  /\ cpc = "idle" /\ sections = <<>> /\ sec_i = 0
  /\ blocks = <<>> /\ blk_i = 0
  /\ current_blocks = <<>> /\ current_length = 0 /\ novl = 0
  /\ chunks = <<>> /\ out = <<>> /\ last_close = NoClose

\* a chunk string together with the blocks it was joined from
Chunk(bs, n) == [text |-> blocks_to_text(bs), blocks |-> bs, novl |-> n]

\* "for section in _split_text_by_headings(text)"
StartSplit ==
  /\ cpc = "start"
  /\ sections' = split_text_by_headings(text)
  /\ cpc' = "section"
  /\ UNCHANGED <<docVars, serveVars, engineVars, threadVars, agentVars>>
  /\ UNCHANGED <<text, max_chars, overlap_chars, sec_i, blocks, blk_i,
                 current_blocks, current_length, novl, chunks, out,
                 last_close>>

\* the variant whose _chunk_blocks answers [""] for a section without blocks
EnterSectionKeepsEmpty ==
  /\ cpc = "section" /\ sec_i < Len(sections)
  /\ LET bs == split_section_blocks(sections[sec_i + 1].text)
     IN /\ blocks' = bs
        /\ sec_i' = sec_i + 1
        /\ \/ /\ bs = <<>> /\ cpc' = "section"
              /\ out' = Append(out, [text |-> <<>>, blocks |-> <<>>,
                                     novl |-> 0, sec |-> sec_i + 1])
           \/ bs # <<>> /\ cpc' = "block" /\ out' = out
  /\ blk_i' = 0 /\ current_blocks' = <<>> /\ current_length' = 0
  /\ novl' = 0 /\ chunks' = <<>>
  /\ UNCHANGED <<docVars, serveVars, engineVars, threadVars, agentVars>>
  /\ UNCHANGED <<text, max_chars, overlap_chars, sections, last_close>>

\* the next section: _split_section_blocks, then _chunk_blocks up to its loop
EnterSection ==
  /\ cpc = "section" /\ sec_i < Len(sections)
  /\ LET bs == split_section_blocks(sections[sec_i + 1].text)
     IN /\ blocks' = bs
        /\ sec_i' = sec_i + 1
        /\ \/ bs = <<>> /\ cpc' = "section"       \* "if not blocks: return []"
           \/ bs # <<>> /\ cpc' = "block"
  /\ blk_i' = 0 /\ current_blocks' = <<>> /\ current_length' = 0
  /\ novl' = 0 /\ chunks' = <<>>
  /\ UNCHANGED <<docVars, serveVars, engineVars, threadVars, agentVars>>
  /\ UNCHANGED <<text, max_chars, overlap_chars, sections, out, last_close>>

\* one iteration of "for block in blocks"
ChunkBlock ==
  /\ cpc = "block" /\ blk_i < Len(blocks)
  /\ LET block == blocks[blk_i + 1]
         block_length == Len(block.text)
         close == /\ current_blocks # <<>>
                  /\ current_length + block_length + 2 > max_chars
         seeded == overlap_text_blocks(current_blocks, overlap_chars)
     IN /\ chunks' = IF close
                     THEN Append(chunks, Chunk(current_blocks, novl))
                     ELSE chunks
        /\ current_blocks' =
             Append(IF close THEN seeded ELSE current_blocks, block)
        /\ current_length' =
             (IF close THEN SumLen(seeded) ELSE current_length)
             + block_length + 2
        /\ novl' = IF close THEN Len(seeded) ELSE novl
        /\ last_close' = IF close
                         THEN [closed |-> current_blocks, overlap |-> seeded]
                         ELSE last_close
  /\ blk_i' = blk_i + 1
  /\ UNCHANGED <<docVars, serveVars, engineVars, threadVars, agentVars>>
  /\ UNCHANGED <<text, max_chars, overlap_chars, cpc, sections, sec_i,
                 blocks, out>>

\* the variant without "if current_blocks: chunks.append(...)"
FinishSectionNoFlush ==
  /\ cpc = "block" /\ blk_i = Len(blocks)
  /\ out' = out \o
       [i \in 1..Len(chunks) |->
          [text |-> chunks[i].text, blocks |-> chunks[i].blocks,
           novl |-> chunks[i].novl, sec |-> sec_i]]
  /\ cpc' = "section"
  /\ chunks' = <<>> /\ current_blocks' = <<>> /\ current_length' = 0
  /\ novl' = 0
  /\ UNCHANGED <<docVars, serveVars, engineVars, threadVars, agentVars>>
  /\ UNCHANGED <<text, max_chars, overlap_chars, sections, sec_i, blocks,
                 blk_i, last_close>>

\* after the loop: the last chunk, the filter of empty chunks, chunks.extend
FinishSection ==
  /\ cpc = "block" /\ blk_i = Len(blocks)
  /\ LET all == IF current_blocks # <<>>
                THEN Append(chunks, Chunk(current_blocks, novl))
                ELSE chunks
         kept == SelectSeq(all, LAMBDA c : strip(c.text) # <<>>)
     IN out' = out \o
          [i \in 1..Len(kept) |->
             [text |-> kept[i].text, blocks |-> kept[i].blocks,
              novl |-> kept[i].novl, sec |-> sec_i]]
  /\ cpc' = "section"
  /\ chunks' = <<>> /\ current_blocks' = <<>> /\ current_length' = 0
  /\ novl' = 0
  /\ UNCHANGED <<docVars, serveVars, engineVars, threadVars, agentVars>>
  /\ UNCHANGED <<text, max_chars, overlap_chars, sections, sec_i, blocks,
                 blk_i, last_close>>

\* "return chunks"
ReturnChunks ==
  /\ cpc = "section" /\ sec_i = Len(sections)
  /\ cpc' = "done"
  /\ UNCHANGED <<docVars, serveVars, engineVars, threadVars, agentVars>>
  /\ UNCHANGED <<text, max_chars, overlap_chars, sections, sec_i, blocks,
                 blk_i, current_blocks, current_length, novl, chunks, out,
                 last_close>>

ChunkNext ==
  \/ StartSplit
  \/ EnterSection
  \/ ChunkBlock
  \/ FinishSection
  \/ ReturnChunks

(***************************************************************************)
(* DocSpec: split_documents_into_chunks(documents, max_chars,              *)
(* overlap_chars).  The loops over the sections and the blocks are those   *)
(* of split_text_into_chunks (StartSplit, EnterSection, ChunkBlock), run   *)
(* on document.text.  A metadata dict is a function from its keys.         *)
(***************************************************************************)
MaxDocs == 2

\* document.metadata: None, or a dict
NoMetadata == [none |-> TRUE, items |-> <<>>]
Metadata(d) == [none |-> FALSE, items |-> d]

\* "document.metadata or {}", copied by dict(...)
dict_or_empty(m) == IF m.none \/ DOMAIN m.items = {} THEN <<>> ELSE m.items

\* d[k] = v on a copy of d
setitem(d, k, v) ==
  [x \in DOMAIN d \cup {k} |-> IF x = k THEN v ELSE d[x]]

FileName == <<"a", ".", "m", "d">>

MetadataInputs ==
  {NoMetadata,
   Metadata([file_name |-> FileName]),
   Metadata([file_name |-> FileName, chunk_index |-> 7,
             section_title |-> <<"o", "l", "d">>])}

\* "## A\nHello world.\n\n## B\n```\ncode here\n```"
ExampleDocument ==
  join(<<"\n">>,
       << <<"#", "#", " ", "A">>,
          <<"H", "e", "l", "l", "o", " ", "w", "o", "r", "l", "d", ".">>,
          <<>>,
          <<"#", "#", " ", "B">>,
          Fence,
          <<"c", "o", "d", "e", " ", "h", "e", "r", "e">>,
          Fence >>)

\* a preamble of two paragraphs, then a titled section of two paragraphs
PreambleDocument ==
  join(<<"\n">>,
       <<LineText, LineBlank, LineText, LineHeading, LineText, LineBlank,
         LineText>>)

DocTexts == {<<>>, ExampleDocument, PreambleDocument}

DocInputs == [text : DocTexts, metadata : MetadataInputs]

\* chunk_size and chunk_overlap as the caller passes them
DocParams ==
  {[max_chars |-> 100, overlap_chars |-> 10],
   [max_chars |-> 2, overlap_chars |-> 1]}

DocIdle ==
  /\ documents = <<>> /\ doc_i = 0 /\ chunk_index = 0
  /\ chunked_documents = <<>>

\* the variant with "chunk_index = 0" before the loop over the documents
DocNextDocumentNoReset ==
  /\ \/ cpc = "documents"
     \/ cpc = "section" /\ sec_i = Len(sections)
  /\ \/ /\ doc_i < Len(documents)
        /\ doc_i' = doc_i + 1
        /\ text' = documents[doc_i + 1].text
        /\ cpc' = "start"
     \/ /\ doc_i = Len(documents)
        /\ cpc' = "done"
        /\ UNCHANGED <<doc_i, text>>
  /\ sections' = <<>> /\ sec_i' = 0
  /\ UNCHANGED <<documents, chunk_index, chunked_documents>>
  /\ UNCHANGED <<max_chars, overlap_chars, blocks, blk_i, current_blocks,
                 current_length, novl, chunks, out, last_close>>
  /\ UNCHANGED <<serveVars, engineVars, threadVars, agentVars>>

\* "for document in documents: chunk_index = 0", or "return
\* chunked_documents" after the last document
DocNextDocument ==
  /\ \/ cpc = "documents"
     \/ cpc = "section" /\ sec_i = Len(sections)
  /\ \/ /\ doc_i < Len(documents)
        /\ doc_i' = doc_i + 1
        /\ chunk_index' = 0
        /\ text' = documents[doc_i + 1].text
        /\ cpc' = "start"
     \/ /\ doc_i = Len(documents)
        /\ cpc' = "done"
        /\ UNCHANGED <<doc_i, chunk_index, text>>
  /\ sections' = <<>> /\ sec_i' = 0
  /\ UNCHANGED <<documents, chunked_documents>>
  /\ UNCHANGED <<max_chars, overlap_chars, blocks, blk_i, current_blocks,
                 current_length, novl, chunks, out, last_close>>
  /\ UNCHANGED <<serveVars, engineVars, threadVars, agentVars>>

\* the Document of one chunk; doc, sec, blocks and novl record where the
\* chunk comes from
ChunkDocument(c, idx, title, titled) ==
  LET base == setitem(dict_or_empty(documents[doc_i].metadata),
                      "chunk_index", idx)
  IN [text |-> c.text,
      metadata |-> IF titled THEN setitem(base, "section_title", title)
                   ELSE base,
      doc |-> doc_i, sec |-> sec_i, blocks |-> c.blocks, novl |-> c.novl]

\* the end of _chunk_blocks (190-193) and "for chunk_text in chunks"; always
\* is FALSE in the source ("if section['title']")
EmitSection(always) ==
  /\ cpc = "block" /\ blk_i = Len(blocks)
  /\ LET all == IF current_blocks # <<>>
                THEN Append(chunks, Chunk(current_blocks, novl))
                ELSE chunks
         returned == SelectSeq(all, LAMBDA c : strip(c.text) # <<>>)
         emitted == SelectSeq(returned, LAMBDA c : strip(c.text) # <<>>)
         title == sections[sec_i].title
     IN /\ chunked_documents' = chunked_documents \o
             [i \in 1..Len(emitted) |->
                ChunkDocument(emitted[i], chunk_index + i - 1, title,
                              always \/ title # <<>>)]
        /\ chunk_index' = chunk_index + Len(emitted)
  /\ cpc' = "section"
  /\ chunks' = <<>> /\ current_blocks' = <<>> /\ current_length' = 0
  /\ novl' = 0
  /\ UNCHANGED <<documents, doc_i>>
  /\ UNCHANGED <<text, max_chars, overlap_chars, sections, sec_i, blocks,
                 blk_i, out, last_close>>
  /\ UNCHANGED <<serveVars, engineVars, threadVars, agentVars>>

\* the variant that sets section_title whatever the title
DocFinishSectionAlwaysTitled == EmitSection(TRUE)

DocFinishSection == EmitSection(FALSE)

DocNext ==
  \/ DocNextDocument
  \/ StartSplit
  \/ EnterSection
  \/ ChunkBlock
  \/ DocFinishSection



(***************************************************************************)
(* ServeSpec: one request.  Scores are in units of 0.00001.                *)
(***************************************************************************)
MaxNodes == 4
MaxTokens == 3

SimilarityThreshold == 40000      \* similarity_threshold = 0.4
DefaultRouteThreshold == 40000    \* "request.similarity_threshold or 0.4"

ModeLearning == <<"l", "e", "a", "r", "n", "i", "n", "g">>
ModeConcise == <<"c", "o", "n", "c", "i", "s", "e">>
ModeVerbose == <<"v", "e", "r", "b", "o", "s", "e">>
ModePaddedConcise == <<" ", "C", "o", "n", "c", "i", "s", "e", " ">>
ModeInputs == {ModeLearning, ModeConcise, ModeVerbose, ModePaddedConcise}
QuestionInputs == {<<" ">>, <<"w", "h", "y">>}
\* request.similarity_threshold: None, or a number
NoThreshold == [given |-> FALSE, value |-> 0]
Given(v) == [given |-> TRUE, value |-> v]
ThresholdInputs == {NoThreshold, Given(0), Given(30000), Given(60000)}

UpperCase == <<"A", "B", "C", "D", "E", "F", "G", "H", "I", "J", "K", "L", "M",
               "N", "O", "P", "Q", "R", "S", "T", "U", "V", "W", "X", "Y", "Z">>
LowerCase == <<"a", "b", "c", "d", "e", "f", "g", "h", "i", "j", "k", "l", "m",
               "n", "o", "p", "q", "r", "s", "t", "u", "v", "w", "x", "y", "z">>

\* str.lower()
lower(s) ==
  [i \in 1..Len(s) |->
     IF \E k \in 1..26 : UpperCase[k] = s[i]
     THEN LowerCase[CHOOSE k \in 1..26 : UpperCase[k] = s[i]]
     ELSE s[i]]

\* the scores a retrieval can report; 39996 rounds to 0.4 at four decimals
Scores == {10000, 30000, 39996, 40000, 50000, 90000}

\* retriever.retrieve: at most MaxNodes candidates, best first
NodeLists ==
  {ns \in UNION {[1..n -> Scores] : n \in 0..MaxNodes} :
     \A i \in 1..(Len(ns) - 1) : ns[i] > ns[i + 1]}

\* node.text of the candidate with a given score: texts shorter than the
\* preview, one character shorter, as long, and one character longer
PreviewLength == 200              \* "node.text[:200]"

Letters(n) == [i \in 1..n |-> IF i % 2 = 1 THEN "a" ELSE "b"]

NodeText(score) ==
  IF score = 90000 THEN Letters(PreviewLength + 1)
  ELSE IF score = 50000 THEN Letters(PreviewLength)
  ELSE IF score = 39996 THEN Letters(PreviewLength - 1)
  ELSE IF score = 10000 THEN <<>>
  ELSE Letters(3)

\* node.text[:200] + "..."
preview(t) ==
  SubSeq(t, 1, IF Len(t) < PreviewLength THEN Len(t) ELSE PreviewLength)
    \o <<".", ".", ".">>

\* time.time() in units of 0.1 ms; the wall clock may be set back between
\* two calls
ClockReadings == {0, 25}

\* a clock that advances 2.5 ms from one call to the next
SteadyClock == [i \in 1..8 |-> 25 * i]

\* int((end - start) * 1000): truncation towards zero
elapsed_ms(start, end) ==
  IF end >= start THEN (end - start) \div 10 ELSE -((start - end) \div 10)

\* response.source_nodes: none reported, the nodes given, or re-ranked
SynthReports(ns) == {<<>>, ns, Reverse(ns)}

NoResponse == [answer |-> None, source_nodes |-> <<>>]
NoResult == [answer |-> None, sources |-> <<>>]
NoBody == [answer |-> None, sources |-> <<>>]

Event(kind, payload) == [kind |-> kind, payload |-> payload]

\* _get_text_qa_template
get_text_qa_template(m) ==
  IF m = ModeConcise THEN "CONCISE_QA_TEMPLATE" ELSE "LEARNING_QA_TEMPLATE"

\* the variant of the filter with a strict comparison
FilterAbove(ns, threshold) == SelectSeq(ns, LAMBDA score : score > threshold)

\* "if node.score >= self.similarity_threshold: filtered_nodes.append(node)"
filter_nodes(ns, threshold) == SelectSeq(ns, LAMBDA score : score >= threshold)

\* round(score, 4): to the nearest multiple of 10 units
round4(score) == ((score + 5) \div 10) * 10

\* "request.similarity_threshold or 0.4"
route_threshold(t) ==
  IF ~ t.given \/ t.value = 0 THEN DefaultRouteThreshold ELSE t.value

ServeIdle ==
  /\ entry = "none" /\ question = <<>> /\ mode = <<>>
  /\ show_sources = FALSE /\ stream = FALSE /\ req_threshold = NoThreshold
  /\ engine_set = FALSE
  /\ spc = "idle" /\ op = None /\ emode = <<>> /\ template = None
  /\ nodes = <<>> /\ response = NoResponse /\ result = NoResult
  /\ exc = None /\ events = <<>> /\ tokens_sent = 0
  /\ http = 0 /\ body = NoBody /\ outcome = None
  /\ clock = <<>> /\ reads = 0 /\ retrieval_ms = 0 /\ llm_ms = 0

EngineIdle ==
  /\ index = None /\ build_calls = 0
  /\ retrieval_calls = 0 /\ generation_calls = 0

ThreadIdle == tpc = <<>> /\ top = <<>>

ValidModes == {ModeLearning, ModeConcise}

\* where an exception raised inside the engine is caught: the except clause
\* of event_stream, the except clause of the route, or nowhere (a direct call)
CatchPoint ==
  IF entry = "chat" THEN "done"
  ELSE IF op = "chat_stream" THEN "s_except" ELSE "r_except"

Raise(kind) ==
  /\ exc' = kind
  /\ spc' = CatchPoint
  /\ outcome' = IF entry = "chat" THEN "raised" ELSE outcome

\* routes.py 58-59: the blank question, before the try block
RouteCheckQuestion ==
  /\ spc = "r_question"
  /\ \/ /\ strip(question) = <<>>
        /\ http' = 400 /\ spc' = "done" /\ outcome' = "http_error"
     \/ /\ strip(question) # <<>>
        /\ spc' = "r_engine" /\ UNCHANGED <<http, outcome>>
  /\ UNCHANGED <<entry, question, mode, show_sources, stream, req_threshold,
                 engine_set, op, emode, template, nodes, response, result,
                 exc, events, tokens_sent, body>>
  /\ UNCHANGED timeVars
  /\ UNCHANGED <<chunkVars, docVars, engineVars, threadVars, agentVars>>

\* routes.py 62 and main.py get_rag_engine
RouteGetEngine ==
  /\ spc = "r_engine"
  /\ \/ /\ ~ engine_set
        /\ exc' = "RuntimeError" /\ spc' = "r_except"
     \/ /\ engine_set
        /\ spc' = "r_mode" /\ UNCHANGED exc
  /\ UNCHANGED <<entry, question, mode, show_sources, stream, req_threshold,
                 engine_set, op, emode, template, nodes, response, result,
                 events, tokens_sent, http, body, outcome>>
  /\ UNCHANGED timeVars
  /\ UNCHANGED <<chunkVars, docVars, engineVars, threadVars, agentVars>>

\* routes.py 64-72 and 115: the start time, the mode, then the streaming response (whose
\* generator starts with engine.chat_stream) or engine.chat
RouteCheckMode ==
  /\ spc = "r_mode"
  /\ reads' = reads + 1                             \* start_time
  /\ UNCHANGED <<clock, retrieval_ms, llm_ms>>
  /\ LET m == lower(strip(mode))
     IN \/ /\ m \notin ValidModes
           /\ exc' = "HTTPException400" /\ spc' = "r_except"
           /\ UNCHANGED <<op, emode, http>>
        \/ /\ m \in ValidModes /\ stream
           /\ op' = "chat_stream" /\ emode' = m /\ spc' = "e_index"
           /\ http' = 200
           /\ UNCHANGED exc
        \/ /\ m \in ValidModes /\ ~ stream
           /\ op' = "chat" /\ emode' = m /\ spc' = "e_index"
           /\ UNCHANGED <<exc, http>>
  /\ UNCHANGED <<entry, question, mode, show_sources, stream, req_threshold,
                 engine_set, template, nodes, response, result,
                 events, tokens_sent, body, outcome>>
  /\ UNCHANGED <<chunkVars, docVars, engineVars, threadVars, agentVars>>

\* rag_engine.py 420-421 and 474-475: "if self.index is None: build_index()"
EngineEnsureIndex ==
  /\ spc = "e_index"
  /\ \/ /\ index # None
        /\ spc' = "e_retrieve"
        /\ UNCHANGED <<index, build_calls, exc, outcome>>
     \/ /\ index = None
        /\ index' = "built" /\ build_calls' = build_calls + 1
        /\ spc' = "e_retrieve"
        /\ UNCHANGED <<exc, outcome>>
     \/ /\ index = None
        /\ build_calls' = build_calls + 1
        /\ Raise("IndexUnavailable")
        /\ UNCHANGED index
  /\ UNCHANGED <<entry, question, mode, show_sources, stream, req_threshold,
                 engine_set, op, emode, template, nodes, response, result,
                 events, tokens_sent, http, body>>
  /\ UNCHANGED <<retrieval_calls, generation_calls>>
  /\ UNCHANGED timeVars
  /\ UNCHANGED <<chunkVars, docVars, threadVars, agentVars>>

\* rag_engine.py 423-426 and 477-478: retriever.retrieve(question)
EngineRetrieve ==
  /\ spc = "e_retrieve"
  /\ retrieval_calls' = retrieval_calls + 1
  /\ \/ /\ nodes' \in NodeLists
        /\ spc' = "e_synth"
        /\ IF op = "chat"
           THEN /\ reads' = reads + 2
                /\ retrieval_ms' =
                     elapsed_ms(clock[reads + 1], clock[reads + 2])
           ELSE UNCHANGED <<reads, retrieval_ms>>
        /\ UNCHANGED <<exc, outcome>>
     \/ /\ Raise("RetrievalFailure")
        /\ reads' = IF op = "chat" THEN reads + 1 ELSE reads
        /\ UNCHANGED <<nodes, retrieval_ms>>
  /\ UNCHANGED <<clock, llm_ms>>
  /\ UNCHANGED <<entry, question, mode, show_sources, stream, req_threshold,
                 engine_set, op, emode, template, response, result,
                 events, tokens_sent, http, body>>
  /\ UNCHANGED <<index, build_calls, generation_calls>>
  /\ UNCHANGED <<chunkVars, docVars, threadVars, agentVars>>

\* rag_engine.py 428-435: the template of the mode, then synthesize
EngineSynthesize ==
  /\ spc = "e_synth" /\ op = "chat"
  /\ template' = get_text_qa_template(emode)
  /\ generation_calls' = generation_calls + 1
  /\ \/ /\ \E reported \in SynthReports(nodes) :
             response' = [answer |-> "answer", source_nodes |-> reported]
        /\ spc' = "e_post"
        /\ reads' = reads + 2
        /\ llm_ms' = elapsed_ms(clock[reads + 1], clock[reads + 2])
        /\ UNCHANGED <<exc, outcome>>
     \/ /\ Raise("GenerationFailure")
        /\ reads' = reads + 1
        /\ UNCHANGED <<response, llm_ms>>
  /\ UNCHANGED <<clock, retrieval_ms>>
  /\ UNCHANGED <<entry, question, mode, show_sources, stream, req_threshold,
                 engine_set, op, emode, nodes, result,
                 events, tokens_sent, http, body>>
  /\ UNCHANGED <<index, build_calls, retrieval_calls>>
  /\ UNCHANGED <<chunkVars, docVars, threadVars, agentVars>>

\* rag_engine.py 480-486: synthesize(streaming=True), return response_gen, nodes
EngineStreamSynthesize ==
  /\ spc = "e_synth" /\ op = "chat_stream"
  /\ template' = get_text_qa_template(emode)
  /\ generation_calls' = generation_calls + 1
  /\ \/ /\ spc' = "s_tokens"
        /\ UNCHANGED <<exc, outcome>>
     \/ Raise("GenerationFailure")
  /\ UNCHANGED <<entry, question, mode, show_sources, stream, req_threshold,
                 engine_set, op, emode, nodes, response, result,
                 events, tokens_sent, http, body>>
  /\ UNCHANGED <<index, build_calls, retrieval_calls>>
  /\ UNCHANGED timeVars
  /\ UNCHANGED <<chunkVars, docVars, threadVars, agentVars>>

\* rag_engine.py 437-465: the threshold filter and the result
EnginePostprocess ==
  /\ spc = "e_post"
  /\ LET response_nodes == IF response.source_nodes # <<>>
                           THEN response.source_nodes ELSE nodes
         filtered_nodes == filter_nodes(response_nodes, SimilarityThreshold)
         postprocess_ms == elapsed_ms(clock[reads + 1], clock[reads + 2])
     IN result' =
          [answer |-> response.answer,
           sources |-> IF show_sources /\ filtered_nodes # <<>>
                       THEN [i \in 1..Len(filtered_nodes) |->
                               [text |-> preview(NodeText(filtered_nodes[i])),
                                score |-> filtered_nodes[i]]]
                       ELSE <<>>,
           timings |-> [retrieval_ms |-> retrieval_ms,
                        llm_ms |-> llm_ms,
                        postprocess_ms |-> postprocess_ms,
                        total_ms |-> retrieval_ms + llm_ms + postprocess_ms]]
  /\ reads' = reads + 2
  /\ UNCHANGED <<clock, retrieval_ms, llm_ms>>
  /\ spc' = IF entry = "chat" THEN "done" ELSE "r_respond"
  /\ outcome' = IF entry = "chat" THEN "returned" ELSE outcome
  /\ UNCHANGED <<entry, question, mode, show_sources, stream, req_threshold,
                 engine_set, op, emode, template, nodes, response,
                 exc, events, tokens_sent, http, body>>
  /\ UNCHANGED <<chunkVars, docVars, engineVars, threadVars, agentVars>>

\* routes.py 121-146: the sources in the frontend's format, the second
\* filter, the response
RouteRespond ==
  /\ spc = "r_respond"
  /\ LET sources == [i \in 1..Len(result.sources) |->
                       [text |-> result.sources[i].text,
                        score |-> round4(result.sources[i].score)]]
         threshold == route_threshold(req_threshold)
     IN body' = [answer |-> result.answer,
                 sources |-> SelectSeq(sources,
                                       LAMBDA src : src.score >= threshold),
                 query_time_ms |-> result.timings.total_ms,
                 timings |-> result.timings]
  /\ reads' = reads + 1                             \* query_time_ms
  /\ UNCHANGED <<clock, retrieval_ms, llm_ms>>
  /\ http' = 200 /\ outcome' = "responded" /\ spc' = "done"
  /\ UNCHANGED <<entry, question, mode, show_sources, stream, req_threshold,
                 engine_set, op, emode, template, nodes, response, result,
                 exc, events, tokens_sent>>
  /\ UNCHANGED <<chunkVars, docVars, engineVars, threadVars, agentVars>>

\* the variant that answers with an empty body instead of raising
RouteExceptAnswersEmpty ==
  /\ spc = "r_except"
  /\ http' = 200 /\ outcome' = "responded" /\ spc' = "done"
  /\ body' = [answer |-> <<>>, sources |-> <<>>]
  /\ UNCHANGED <<entry, question, mode, show_sources, stream, req_threshold,
                 engine_set, op, emode, template, nodes, response, result,
                 exc, events, tokens_sent>>
  /\ UNCHANGED timeVars
  /\ UNCHANGED <<chunkVars, docVars, engineVars, threadVars, agentVars>>

\* routes.py 148-149: "except Exception: raise HTTPException(500)"
RouteExcept ==
  /\ spc = "r_except"
  /\ http' = 500 /\ outcome' = "http_error" /\ spc' = "done"
  /\ UNCHANGED <<entry, question, mode, show_sources, stream, req_threshold,
                 engine_set, op, emode, template, nodes, response, result,
                 exc, events, tokens_sent, body>>
  /\ UNCHANGED timeVars
  /\ UNCHANGED <<chunkVars, docVars, engineVars, threadVars, agentVars>>

\* routes.py 78-80: one step of "for chunk in response_gen"
StreamNextToken ==
  /\ spc = "s_tokens"
  /\ \/ /\ tokens_sent < MaxTokens
        /\ events' = Append(events, Event("token", <<>>))
        /\ tokens_sent' = tokens_sent + 1
        /\ UNCHANGED <<spc, exc>>
     \/ /\ spc' = "s_sources"                       \* the generator is done
        /\ UNCHANGED <<events, tokens_sent, exc>>
     \/ /\ exc' = "GenerationFailure" /\ spc' = "s_except"
        /\ UNCHANGED <<events, tokens_sent>>
  /\ UNCHANGED <<entry, question, mode, show_sources, stream, req_threshold,
                 engine_set, op, emode, template, nodes, response, result,
                 http, body, outcome>>
  /\ UNCHANGED timeVars
  /\ UNCHANGED <<chunkVars, docVars, engineVars, threadVars, agentVars>>

\* the variant that retrieves again for the sources
StreamSourcesRetrievesAgain ==
  /\ spc = "s_sources"
  /\ retrieval_calls' = retrieval_calls + 1
  /\ nodes' \in NodeLists
  /\ LET sources == [i \in 1..Len(nodes') |->
                       [text |-> preview(NodeText(nodes'[i])),
                        score |-> round4(nodes'[i])]]
         threshold == route_threshold(req_threshold)
     IN events' =
          Append(events,
                 Event("sources",
                       SelectSeq(sources, LAMBDA src : src.score >= threshold)))
  /\ spc' = "s_finally"
  /\ UNCHANGED <<entry, question, mode, show_sources, stream, req_threshold,
                 engine_set, op, emode, template, response, result,
                 exc, tokens_sent, http, body, outcome>>
  /\ UNCHANGED timeVars
  /\ UNCHANGED <<index, build_calls, generation_calls>>
  /\ UNCHANGED <<chunkVars, docVars, threadVars, agentVars>>

\* routes.py 82-98: the sources of the retrieved nodes, filtered, as one event
StreamSources ==
  /\ spc = "s_sources"
  /\ \/ /\ LET sources == [i \in 1..Len(nodes) |->
                             [text |-> preview(NodeText(nodes[i])),
                              score |-> round4(nodes[i])]]
               threshold == route_threshold(req_threshold)
           IN events' =
                Append(events,
                       Event("sources",
                             SelectSeq(sources,
                                       LAMBDA src : src.score >= threshold)))
        /\ spc' = "s_finally"
        /\ UNCHANGED exc
     \/ /\ exc' = "SourcesFailure" /\ spc' = "s_except"
        /\ UNCHANGED events
  /\ UNCHANGED <<entry, question, mode, show_sources, stream, req_threshold,
                 engine_set, op, emode, template, nodes, response, result,
                 tokens_sent, http, body, outcome>>
  /\ UNCHANGED timeVars
  /\ UNCHANGED <<chunkVars, docVars, engineVars, threadVars, agentVars>>

\* the variant without the except clause: the exception leaves the generator
StreamExceptPropagates ==
  /\ spc = "s_except"
  /\ spc' = "done" /\ outcome' = "raised"
  /\ UNCHANGED <<entry, question, mode, show_sources, stream, req_threshold,
                 engine_set, op, emode, template, nodes, response, result,
                 exc, events, tokens_sent, http, body>>
  /\ UNCHANGED timeVars
  /\ UNCHANGED <<chunkVars, docVars, engineVars, threadVars, agentVars>>

\* the variant whose except clause yields nothing
StreamExceptSilent ==
  /\ spc = "s_except"
  /\ spc' = "s_finally"
  /\ UNCHANGED <<entry, question, mode, show_sources, stream, req_threshold,
                 engine_set, op, emode, template, nodes, response, result,
                 exc, events, tokens_sent, http, body, outcome>>
  /\ UNCHANGED timeVars
  /\ UNCHANGED <<chunkVars, docVars, engineVars, threadVars, agentVars>>

\* routes.py 99-100: "except Exception as exc: yield error"
StreamExcept ==
  /\ spc = "s_except"
  /\ events' = Append(events, Event("error", <<exc>>))
  /\ spc' = "s_finally"
  /\ UNCHANGED <<entry, question, mode, show_sources, stream, req_threshold,
                 engine_set, op, emode, template, nodes, response, result,
                 exc, tokens_sent, http, body, outcome>>
  /\ UNCHANGED timeVars
  /\ UNCHANGED <<chunkVars, docVars, engineVars, threadVars, agentVars>>

\* the variant that ends the stream without the completion marker
StreamFinallyNoDone ==
  /\ spc = "s_finally"
  /\ spc' = "done" /\ outcome' = "stream_closed"
  /\ UNCHANGED <<entry, question, mode, show_sources, stream, req_threshold,
                 engine_set, op, emode, template, nodes, response, result,
                 exc, events, tokens_sent, http, body>>
  /\ UNCHANGED timeVars
  /\ UNCHANGED <<chunkVars, docVars, engineVars, threadVars, agentVars>>

\* routes.py 101-102: "finally: yield [DONE]", the end of the generator
StreamFinally ==
  /\ spc = "s_finally"
  /\ events' = Append(events, Event("done", <<>>))
  /\ spc' = "done" /\ outcome' = "stream_closed"
  /\ UNCHANGED <<entry, question, mode, show_sources, stream, req_threshold,
                 engine_set, op, emode, template, nodes, response, result,
                 exc, tokens_sent, http, body>>
  /\ UNCHANGED timeVars
  /\ UNCHANGED <<chunkVars, docVars, engineVars, threadVars, agentVars>>

ServeNext ==
  \/ RouteCheckQuestion
  \/ RouteGetEngine
  \/ RouteCheckMode
  \/ EngineEnsureIndex
  \/ EngineRetrieve
  \/ EngineSynthesize
  \/ EngineStreamSynthesize
  \/ EnginePostprocess
  \/ RouteRespond
  \/ RouteExcept
  \/ StreamNextToken
  \/ StreamSources
  \/ StreamExcept
  \/ StreamFinally

(***************************************************************************)
(* InitSpec: threads entering chat / chat_stream / query of one engine.    *)
(* Each method starts with "if self.index is None: self.build_index()",    *)
(* with no lock around the test and the construction.                      *)
(***************************************************************************)
NThreads == 3

Threads == 1..NThreads
EngineMethods == {"chat", "chat_stream", "query"}

\* rag_engine.py 390, 420, 474: "if self.index is None"
ThreadCheck(t) ==
  /\ tpc[t] = "check"
  /\ tpc' = [tpc EXCEPT ![t] = IF index = None THEN "build" ELSE "use"]
  /\ UNCHANGED <<agentVars, top, engineVars, chunkVars, docVars, serveVars>>

\* rag_engine.py 324-379: build_index, which sets self.index when it succeeds
ThreadBuild(t) ==
  /\ tpc[t] = "build"
  /\ build_calls' = build_calls + 1
  /\ \/ /\ index' = "built"
        /\ tpc' = [tpc EXCEPT ![t] = "use"]
     \/ /\ tpc' = [tpc EXCEPT ![t] = "failed"]
        /\ UNCHANGED index
  /\ UNCHANGED <<agentVars, top, retrieval_calls, generation_calls, chunkVars, docVars,
                 serveVars>>

\* rag_engine.py 393-399, 423-425, 477-478: the retrieval on self.index
ThreadUse(t) ==
  /\ tpc[t] = "use"
  /\ retrieval_calls' = retrieval_calls + 1
  /\ tpc' = [tpc EXCEPT ![t] = "done"]
  /\ UNCHANGED <<agentVars, top, index, build_calls, generation_calls, chunkVars,
                 docVars, serveVars>>

ThreadsNext ==
  \E t \in Threads : ThreadCheck(t) \/ ThreadBuild(t) \/ ThreadUse(t)

(***************************************************************************)
(* AgentSpec: the lifecycle of the ceres AIIntelligentAgent.  start(),     *)
(* stop(), the mode tasks and the monitor task are coroutines of one       *)
(* asyncio event loop: a step is what a coroutine does between two points  *)
(* where it is suspended, and the loop may resume the ready coroutines in  *)
(* any order the callers' awaits produce.  The calls considered are up to  *)
(* MaxStartCalls calls of start() and MaxStopCalls calls of stop(), with   *)
(* no start() after a stop() that took effect.                             *)
(***************************************************************************)
MaxStartCalls == 2
MaxStopCalls == 2
MaxIterations == 2

\* config.py 161-166: the modes "all" stands for
AgentModes == {"competitive", "trend_analysis", "external_hotspot"}
HealthMonitorTask == "health_monitor"
AgentTasks == AgentModes \cup {HealthMonitorTask}

AgentIdle ==
  /\ agent_mode = {} /\ enable_monitoring = FALSE
  /\ is_running = FALSE /\ start_time = None
  /\ mode_is_running = [m \in AgentModes |-> FALSE]
  /\ is_monitoring = FALSE
  /\ task = [t \in AgentTasks |-> None]
  /\ iterations = [t \in AgentTasks |-> 0]
  /\ start_pc = "idle" /\ start_calls = 0 /\ stop_calls = 0
  /\ stopped = FALSE

\* intelligent_agent.py 114-131, the body of stop() past its guard; the
\* awaited mode.stop() and health_monitor.stop() never suspend
StopBody ==
  /\ is_running' = FALSE
  /\ mode_is_running' =
       [m \in AgentModes |-> IF m \in agent_mode THEN FALSE
                                                 ELSE mode_is_running[m]]
  /\ is_monitoring' = FALSE
  /\ stopped' = TRUE

\* intelligent_agent.py 85-87: start() on a running agent
StartWhileRunning ==
  /\ start_calls < MaxStartCalls
  /\ is_running
  /\ start_calls' = start_calls + 1
  /\ UNCHANGED <<agent_mode, enable_monitoring, is_running, start_time,
                 mode_is_running, is_monitoring, task, iterations, start_pc,
                 stop_calls, stopped>>
  /\ UNCHANGED <<chunkVars, docVars, serveVars, engineVars, threadVars>>

\* intelligent_agent.py 83-112: start() on a stopped agent, up to the
\* await of asyncio.gather; gather of no task is done at once, and start()
\* goes on into "finally: await self.stop()"
AgentStart ==
  /\ start_calls < MaxStartCalls
  /\ ~is_running /\ start_pc = "idle" /\ ~stopped
  /\ start_calls' = start_calls + 1
  /\ start_time' = "set"
  /\ task' = [t \in AgentTasks |->
                IF \/ t \in agent_mode
                   \/ t = HealthMonitorTask /\ enable_monitoring
                THEN "created" ELSE task[t]]
  /\ IF agent_mode # {}
     THEN /\ is_running' = TRUE
          /\ start_pc' = "gather"
          /\ UNCHANGED <<mode_is_running, is_monitoring, stopped>>
     ELSE /\ StopBody
          /\ start_pc' = "returned"
  /\ UNCHANGED <<agent_mode, enable_monitoring, iterations, stop_calls>>
  /\ UNCHANGED <<chunkVars, docVars, serveVars, engineVars, threadVars>>

\* intelligent_agent.py 133-142 and trend_analysis.py 42-55 (likewise
\* competitive_judgment.py 38-49, external_hotspot.py 47-64): the task's
\* first step, _run_mode into mode.run(), which sets is_running and runs
\* the first iteration up to its asyncio.sleep
ModeTaskBegin(m) ==
  /\ m \in AgentModes /\ task[m] = "created"
  /\ mode_is_running' = [mode_is_running EXCEPT ![m] = TRUE]
  /\ task' = [task EXCEPT ![m] = "sleeping"]
  /\ iterations' = [iterations EXCEPT ![m] = 1]
  /\ UNCHANGED <<agent_mode, enable_monitoring, is_running, start_time,
                 is_monitoring, start_pc, start_calls, stop_calls, stopped>>
  /\ UNCHANGED <<chunkVars, docVars, serveVars, engineVars, threadVars>>

\* the modes' "while self.is_running" after a sleep: one more iteration up
\* to its sleep, or the end of run() and of the task
ModeTaskWake(m) ==
  /\ m \in AgentModes /\ task[m] = "sleeping"
  /\ IF mode_is_running[m]
     THEN /\ iterations[m] < MaxIterations
          /\ iterations' = [iterations EXCEPT ![m] = @ + 1]
          /\ UNCHANGED task
     ELSE /\ task' = [task EXCEPT ![m] = "finished"]
          /\ UNCHANGED iterations
  /\ UNCHANGED <<agent_mode, enable_monitoring, is_running, start_time,
                 mode_is_running, is_monitoring, start_pc, start_calls,
                 stop_calls, stopped>>
  /\ UNCHANGED <<chunkVars, docVars, serveVars, engineVars, threadVars>>

\* monitoring.py 21-51: HealthMonitor.start_monitoring up to its first sleep
MonitorTaskBegin ==
  /\ task[HealthMonitorTask] = "created"
  /\ is_monitoring' = TRUE
  /\ task' = [task EXCEPT ![HealthMonitorTask] = "sleeping"]
  /\ iterations' = [iterations EXCEPT ![HealthMonitorTask] = 1]
  /\ UNCHANGED <<agent_mode, enable_monitoring, is_running, start_time,
                 mode_is_running, start_pc, start_calls, stop_calls, stopped>>
  /\ UNCHANGED <<chunkVars, docVars, serveVars, engineVars, threadVars>>

\* monitoring.py 30-51: "while self.is_monitoring" after a sleep
MonitorTaskWake ==
  /\ task[HealthMonitorTask] = "sleeping"
  /\ IF is_monitoring
     THEN /\ iterations[HealthMonitorTask] < MaxIterations
          /\ iterations' = [iterations EXCEPT ![HealthMonitorTask] = @ + 1]
          /\ UNCHANGED task
     ELSE /\ task' = [task EXCEPT ![HealthMonitorTask] = "finished"]
          /\ UNCHANGED iterations
  /\ UNCHANGED <<agent_mode, enable_monitoring, is_running, start_time,
                 mode_is_running, is_monitoring, start_pc, start_calls,
                 stop_calls, stopped>>
  /\ UNCHANGED <<chunkVars, docVars, serveVars, engineVars, threadVars>>

\* intelligent_agent.py 114-131: a call of stop(); it has no point where
\* it is suspended
AgentStop ==
  /\ stop_calls < MaxStopCalls
  /\ stop_calls' = stop_calls + 1
  /\ IF is_running
     THEN StopBody
     ELSE UNCHANGED <<is_running, mode_is_running, is_monitoring, stopped>>
  /\ UNCHANGED <<agent_mode, enable_monitoring, start_time, task, iterations,
                 start_pc, start_calls>>
  /\ UNCHANGED <<chunkVars, docVars, serveVars, engineVars, threadVars>>

\* intelligent_agent.py 105-112: gather is done when every mode task is;
\* start() goes on into "finally: await self.stop()" and returns
GatherReturns ==
  /\ start_pc = "gather"
  /\ \A m \in agent_mode : task[m] = "finished"
  /\ start_pc' = "returned"
  /\ IF is_running
     THEN StopBody
     ELSE UNCHANGED <<is_running, mode_is_running, is_monitoring, stopped>>
  /\ UNCHANGED <<agent_mode, enable_monitoring, start_time, task, iterations,
                 start_calls, stop_calls>>
  /\ UNCHANGED <<chunkVars, docVars, serveVars, engineVars, threadVars>>

AgentNext ==
  \/ StartWhileRunning
  \/ AgentStart
  \/ \E m \in AgentModes : ModeTaskBegin(m) \/ ModeTaskWake(m)
  \/ MonitorTaskBegin
  \/ MonitorTaskWake
  \/ AgentStop
  \/ GatherReturns

(***************************************************************************)
(* The specifications.                                                     *)
(***************************************************************************)
ChunkInit ==
  /\ text \in Documents
  /\ max_chars \in 1..MaxChars
  /\ overlap_chars \in 0..MaxOverlap
  /\ cpc = "start" /\ sections = <<>> /\ sec_i = 0
  /\ blocks = <<>> /\ blk_i = 0
  /\ current_blocks = <<>> /\ current_length = 0 /\ novl = 0
  /\ chunks = <<>> /\ out = <<>> /\ last_close = NoClose
  /\ DocIdle /\ ServeIdle /\ EngineIdle /\ ThreadIdle /\ AgentIdle

ChunkSpec == ChunkInit /\ [][ChunkNext]_vars

\* split_text_into_chunks called with no overlap: overlap_chars zero or
\* negative
NoOverlapBudgets == {-1, 0}

ZeroOverlapInit ==
  /\ text \in Documents
  /\ max_chars \in 1..MaxChars
  /\ overlap_chars \in NoOverlapBudgets
  /\ cpc = "start" /\ sections = <<>> /\ sec_i = 0
  /\ blocks = <<>> /\ blk_i = 0
  /\ current_blocks = <<>> /\ current_length = 0 /\ novl = 0
  /\ chunks = <<>> /\ out = <<>> /\ last_close = NoClose
  /\ DocIdle /\ ServeIdle /\ EngineIdle /\ ThreadIdle /\ AgentIdle

ZeroOverlapSpec == ZeroOverlapInit /\ [][ChunkNext]_vars

DocInit ==
  /\ documents \in UNION {[1..n -> DocInputs] : n \in 0..MaxDocs}
  /\ \E p \in DocParams :
       max_chars = p.max_chars /\ overlap_chars = p.overlap_chars
  /\ doc_i = 0 /\ chunk_index = 0 /\ chunked_documents = <<>>
  /\ text = <<>> /\ cpc = "documents" /\ sections = <<>> /\ sec_i = 0
  /\ blocks = <<>> /\ blk_i = 0
  /\ current_blocks = <<>> /\ current_length = 0 /\ novl = 0
  /\ chunks = <<>> /\ out = <<>> /\ last_close = NoClose
  /\ ServeIdle /\ EngineIdle /\ ThreadIdle /\ AgentIdle

DocSpec == DocInit /\ [][DocNext]_vars

ServeInit ==
  /\ ChunkIdle /\ DocIdle /\ ThreadIdle /\ AgentIdle
  /\ entry \in {"route", "chat"}
  /\ question \in QuestionInputs
  /\ mode \in ModeInputs
  /\ show_sources \in BOOLEAN
  /\ index \in {None, "loaded"}
  /\ IF entry = "route"
     THEN /\ stream \in BOOLEAN
          /\ req_threshold \in ThresholdInputs
          /\ engine_set \in BOOLEAN
          /\ spc = "r_question" /\ op = None /\ emode = <<>>
     ELSE /\ stream = FALSE /\ req_threshold = NoThreshold /\ engine_set = TRUE
          /\ spc = "e_index" /\ op = "chat" /\ emode = mode
  /\ build_calls = 0 /\ retrieval_calls = 0 /\ generation_calls = 0
  /\ template = None
  /\ nodes = <<>> /\ response = NoResponse /\ result = NoResult
  /\ exc = None /\ events = <<>> /\ tokens_sent = 0
  /\ http = 0 /\ body = NoBody /\ outcome = None
  /\ clock = SteadyClock /\ reads = 0 /\ retrieval_ms = 0 /\ llm_ms = 0

ServeSpec == ServeInit /\ [][ServeNext]_vars

\* TimingSpec: Web3RAGEngine.chat called directly, under every run of the
\* clock over its six calls of time.time()
TimingInit ==
  /\ ChunkIdle /\ DocIdle /\ ThreadIdle /\ AgentIdle
  /\ entry = "chat"
  /\ question = <<"w", "h", "y">>
  /\ mode = ModeLearning
  /\ show_sources \in BOOLEAN
  /\ index \in {None, "loaded"}
  /\ stream = FALSE /\ req_threshold = NoThreshold /\ engine_set = TRUE
  /\ spc = "e_index" /\ op = "chat" /\ emode = mode
  /\ build_calls = 0 /\ retrieval_calls = 0 /\ generation_calls = 0
  /\ template = None
  /\ nodes = <<>> /\ response = NoResponse /\ result = NoResult
  /\ exc = None /\ events = <<>> /\ tokens_sent = 0
  /\ http = 0 /\ body = NoBody /\ outcome = None
  /\ clock \in [1..6 -> ClockReadings]
  /\ reads = 0 /\ retrieval_ms = 0 /\ llm_ms = 0

TimingNext ==
  \/ EngineEnsureIndex
  \/ EngineRetrieve
  \/ EngineSynthesize
  \/ EnginePostprocess

TimingSpec == TimingInit /\ [][TimingNext]_vars

ThreadsInit ==
  /\ ChunkIdle /\ DocIdle /\ ServeIdle /\ EngineIdle /\ AgentIdle
  /\ top \in [Threads -> EngineMethods]
  /\ tpc = [t \in Threads |-> "check"]

InitSpec == ThreadsInit /\ [][ThreadsNext]_vars

\* intelligent_agent.py 27-58: the agent as constructed, for every choice of
\* enabled modes and of monitoring
AgentInit ==
  /\ ChunkIdle /\ DocIdle /\ ServeIdle /\ EngineIdle /\ ThreadIdle
  /\ agent_mode \in SUBSET AgentModes
  /\ enable_monitoring \in BOOLEAN
  /\ is_running = FALSE /\ start_time = None
  /\ mode_is_running = [m \in AgentModes |-> FALSE]
  /\ is_monitoring = FALSE
  /\ task = [t \in AgentTasks |-> None]
  /\ iterations = [t \in AgentTasks |-> 0]
  /\ start_pc = "idle" /\ start_calls = 0 /\ stop_calls = 0
  /\ stopped = FALSE

AgentSpec == AgentInit /\ [][AgentNext]_vars

(***************************************************************************)
(* Properties of the chunker (ChunkSpec).                                  *)
(***************************************************************************)
\* some chunk was closed with a further block pending
JustClosed == last_close.closed # <<>>

\* every chunk emitted so far, the current section's included
EmittedChunks == out \o chunks

FenceCount(t) ==
  LET ls == splitlines(t)
  IN Cardinality({i \in 1..Len(ls) : IsFenceLine(ls[i])})

IsSuffix(a, b) ==
  Len(a) <= Len(b) /\ a = SubSeq(b, Len(b) - Len(a) + 1, Len(b))

TextBlocksOf(bs) == SelectSeq(bs, LAMBDA b : b.type = "text")

RECURSIVE Flatten(_)
Flatten(ss) == IF ss = <<>> THEN <<>> ELSE Head(ss) \o Flatten(Tail(ss))

\* the blocks of the document, section by section: <<section, idx, type, text>>
DocumentBlocks ==
  LET secs == split_text_by_headings(text)
  IN Flatten([s \in 1..Len(secs) |->
       LET bs == split_section_blocks(secs[s].text)
       IN [i \in 1..Len(bs) |-> <<s, bs[i].idx, bs[i].type, bs[i].text>>]])

\* the blocks of the emitted chunks that are not overlap copies
OriginalBlocks ==
  Flatten([k \in 1..Len(out) |->
    LET c == out[k]
    IN [i \in 1..(Len(c.blocks) - c.novl) |->
          LET b == c.blocks[c.novl + i]
          IN <<c.sec, b.idx, b.type, b.text>>]])

\* C1 (as claimed): with 0 <= overlap_chars < max_chars, every chunk is at
\* most max_chars long unless it is a single block longer than max_chars.
C1_SizeBound ==
  (0 <= overlap_chars /\ overlap_chars < max_chars) =>
    \A k \in 1..Len(EmittedChunks) :
      LET c == EmittedChunks[k]
      IN \/ Len(c.text) <= max_chars
         \/ Len(c.blocks) = 1 /\ Len(c.blocks[1].text) > max_chars

\* C2 (as claimed): the overlap seeded at a close never exceeds overlap_chars.
C2_OverlapWithinBudget ==
  JustClosed => SumLen(last_close.overlap) <= overlap_chars

\* C2 (amended): the overlap seeded at a close never exceeds overlap_chars,
\* unless it is one single text block that alone exceeds a positive
\* overlap_chars; with overlap_chars = 0 nothing is seeded.
C2_OverlapWithinBudgetUnlessSingle ==
  JustClosed =>
    LET ov == last_close.overlap
    IN \/ SumLen(ov) <= overlap_chars
       \/ /\ Len(ov) = 1
          /\ overlap_chars > 0
          /\ Len(ov[1].text) > overlap_chars

\* a close that seeds two overlap blocks
C2_Witness == JustClosed /\ Len(last_close.overlap) >= 2

\* C3 (as claimed): every chunk holds an even number of fence markers.
C3_FenceIntegrity ==
  \A k \in 1..Len(EmittedChunks) : FenceCount(EmittedChunks[k].text) % 2 = 0

\* C3 (amended): a chunk holds an odd number of fence markers exactly when it
\* is the last chunk of a document that ends inside an unclosed fence (a
\* document with an odd number of fence markers); every other chunk holds an
\* even number.
C3_FenceIntegrityExceptUnclosedTail ==
  cpc = "done" =>
    \A k \in 1..Len(out) :
      (FenceCount(out[k].text) % 2 = 1)
        <=> (k = Len(out) /\ FenceCount(text) % 2 = 1)

\* a finished run with two or more chunks, one of them holding a fenced block
C3_Witness ==
  /\ cpc = "done" /\ Len(out) >= 2
  /\ \E k \in 1..Len(out) : FenceCount(out[k].text) = 2

\* C4: the chunks' blocks that are not overlap copies, in emission order, are
\* the document's blocks: each once, in order, none lost.
C4_Reconstruction == cpc = "done" => OriginalBlocks = DocumentBlocks

\* a finished run over two sections with a chunk that starts with overlap
C4_Witness ==
  /\ cpc = "done" /\ Len(sections) >= 2
  /\ \E k \in 1..Len(out) : out[k].novl > 0

\* C10 (as claimed): the overlap is a suffix of all blocks of the closed chunk.
C10_OverlapIsSuffixOfAllBlocks ==
  JustClosed => IsSuffix(last_close.overlap, last_close.closed)

\* C10 (amended): the overlap is a contiguous suffix of the sequence of text
\* blocks of the closed chunk: its last j text blocks for some j >= 0, the
\* code blocks between and after them being skipped.
C10_OverlapIsSuffixOfTextBlocks ==
  JustClosed =>
    IsSuffix(last_close.overlap, TextBlocksOf(last_close.closed))

\* a close of a chunk ending in a code block that still seeds overlap
C10_Witness ==
  /\ JustClosed
  /\ last_close.overlap # <<>>
  /\ last_close.closed[Len(last_close.closed)].type = "code"

IsPrefix(a, b) == Len(a) <= Len(b) /\ a = SubSeq(b, 1, Len(a))

\* the blocks of chunk k that the chunk before it, of the same section,
\* holds as well
Carried(k) ==
  IF k > 1 /\ out[k - 1].sec = out[k].sec
  THEN SelectSeq(out[k].blocks,
                 LAMBDA b : \E i \in 1..Len(out[k - 1].blocks) :
                              out[k - 1].blocks[i] = b)
  ELSE <<>>

\* the chunks that hold block idx of section s
ChunksHolding(s, idx) ==
  {k \in 1..Len(out) :
     out[k].sec = s /\ \E i \in 1..Len(out[k].blocks) :
                         out[k].blocks[i].idx = idx}

\* C11: of two adjacent chunks of one section, the blocks the second shares
\* with the first are text blocks, stand at the front of the second in their
\* order, and are the last text blocks of the first; the first chunk of a
\* section starts with no overlap; every code block is in exactly one chunk.
C11_OverlapShape ==
  cpc = "done" =>
    /\ \A k \in 1..Len(out) :
         /\ IsPrefix(Carried(k), out[k].blocks)
         /\ Len(Carried(k)) = out[k].novl
         /\ \A i \in 1..Len(Carried(k)) : Carried(k)[i].type = "text"
         /\ k > 1 =>
              IsSuffix(Carried(k), TextBlocksOf(out[k - 1].blocks))
    /\ LET document_blocks == DocumentBlocks
       IN \A j \in 1..Len(document_blocks) :
            document_blocks[j][3] = "code" =>
              Cardinality(ChunksHolding(document_blocks[j][1],
                                        document_blocks[j][2])) = 1

\* a finished run with a chunk that ends in a code block and whose successor
\* starts with a carried text block
C11_Witness ==
  /\ cpc = "done"
  /\ \E k \in 2..Len(out) :
       /\ Carried(k) # <<>>
       /\ out[k - 1].blocks[Len(out[k - 1].blocks)].type = "code"

\* C17 (as claimed): a block longer than max_chars is the only block of
\* every chunk that holds it.
C17_OversizedBlockAlone ==
  cpc = "done" =>
    \A k \in 1..Len(out) :
      (\E i \in 1..Len(out[k].blocks) :
         Len(out[k].blocks[i].text) > max_chars)
        => Len(out[k].blocks) = 1

\* C21: an empty document, and a document of blank lines only, yields zero
\* chunks, and no chunk that is emitted is empty or whitespace-only.
C21_EmptyInput ==
  /\ \A k \in 1..Len(out) : strip(out[k].text) # <<>>
  /\ (cpc = "done" /\ strip(text) = <<>>) => out = <<>>

\* a finished run over a document of blank lines only
C21_Witness ==
  /\ cpc = "done" /\ Len(text) >= 1 /\ strip(text) = <<>>
  /\ sec_i >= 1 /\ out = <<>>

\* the running character count of the claim: the block lengths plus 2 per
\* inter-block join, which is the length of the joined chunk
JoinedLength(bs) == Len(blocks_to_text(bs))

\* C23: a step of the block loop closes the current chunk exactly when the
\* chunk holds a block and its running count (block lengths plus 2 per
\* join) plus the candidate's length exceeds max_chars; the rule is also
\* tried with the join between chunk and candidate counted.
C23_GreedyCloseRule ==
  [][(cpc = "block" /\ blk_i' = blk_i + 1) =>
       LET candidate == Len(blocks[blk_i + 1].text)
           closes == Len(chunks') = Len(chunks) + 1
           counted == JoinedLength(current_blocks)
       IN \/ closes <=> (/\ current_blocks # <<>>
                         /\ counted + candidate > max_chars)
          \/ closes <=> (/\ current_blocks # <<>>
                         /\ counted + 2 + candidate > max_chars)]_vars

\* the lines of a text that lie outside every fence, by the scan's toggle
OutsideFence(lines, i) ==
  Cardinality({j \in 1..i : IsFenceLine(lines[j])}) % 2 = 0

\* the lines that start a new section: headings outside every fence, the
\* first line apart (nothing is pending before it)
SectionStarts(lines) ==
  {i \in 2..Len(lines) : OutsideFence(lines, i) /\ is_heading(lines[i])}

\* C25: a heading-pattern line between a fence-open line and its fence-close
\* line starts no section: the sections are begun by the headings outside
\* fences only, every section but the last holds an even number of fence
\* lines (each section starts outside a fence), and under the fresh toggle
\* of the block pass every later heading line of a section is inside a fence.
C25_NoSectionBoundaryInsideFence ==
  cpc = "done" =>
    LET lines == splitlines(text)
    IN /\ Len(sections) =
            Cardinality(SectionStarts(lines)) + (IF lines = <<>> THEN 0 ELSE 1)
       /\ \A k \in 1..(Len(sections) - 1) :
            FenceCount(sections[k].text) % 2 = 0
       /\ \A k \in 1..Len(sections) :
            LET section_lines == splitlines(sections[k].text)
            IN \A j \in 2..Len(section_lines) :
                 is_heading(section_lines[j]) =>
                   ~ OutsideFence(section_lines, j)

\* a finished run over a document with a heading line inside a closed fence
\* and a heading after it
C25_Witness ==
  /\ cpc = "done" /\ Len(sections) = 2
  /\ LET lines == splitlines(text)
     IN \E i \in 1..Len(lines) : \E j \in 1..Len(lines) :
          /\ i < j
          /\ is_heading(lines[i]) /\ ~ OutsideFence(lines, i)
          /\ is_heading(lines[j]) /\ OutsideFence(lines, j)

\* the fence-open lines of a section's lines, and the line that ends the
\* excerpt an open line begins: the next fence line, or the last line
FenceOpens(lines) ==
  {i \in 1..Len(lines) : IsFenceLine(lines[i]) /\ OutsideFence(lines, i - 1)}

FenceClose(lines, i) ==
  IF \E j \in (i + 1)..Len(lines) : IsFenceLine(lines[j])
  THEN CHOOSE j \in (i + 1)..Len(lines) :
         /\ IsFenceLine(lines[j])
         /\ \A m \in (i + 1)..(j - 1) : ~ IsFenceLine(lines[m])
  ELSE Len(lines)

\* C26: within a section every fenced excerpt, from its fence-open line to
\* the matching fence-close line with the blank lines between them, is one
\* block of type code, in the order of the excerpts; a text line right
\* before the excerpt ends the text block before that code block; and the
\* code block is held by exactly one chunk, whatever its length.
C26_FencedBlockAtomic ==
  cpc = "done" =>
    \A s \in 1..Len(sections) :
      LET lines == splitlines(sections[s].text)
          section_blocks == split_section_blocks(sections[s].text)
          code == SelectSeq(section_blocks, LAMBDA b : b.type = "code")
          opens == FenceOpens(lines)
      IN /\ Len(code) = Cardinality(opens)
         /\ \A i \in opens :
              LET n == Cardinality({o \in opens : o <= i})
                  excerpt == SubSeq(lines, i, FenceClose(lines, i))
              IN /\ code[n].text = strip(join(<<"\n">>, excerpt))
                 /\ (i > 1 /\ strip(lines[i - 1]) # <<>>
                       /\ ~ IsFenceLine(lines[i - 1])) =>
                      /\ code[n].idx > 1
                      /\ section_blocks[code[n].idx - 1].type = "text"
                      /\ IsSuffix(strip(lines[i - 1]),
                                  section_blocks[code[n].idx - 1].text)
                 /\ Cardinality(ChunksHolding(s, code[n].idx)) = 1
                 /\ \A k \in ChunksHolding(s, code[n].idx) :
                      \E b \in 1..Len(out[k].blocks) :
                        /\ out[k].blocks[b].type = "code"
                        /\ out[k].blocks[b].text = code[n].text

\* a finished run in which a chunk holds a code block that is longer than
\* max_chars, has a blank line between its fences and follows a text block
C26_Witness ==
  /\ cpc = "done"
  /\ \E k \in 1..Len(out) : \E b \in 2..Len(out[k].blocks) :
       /\ out[k].blocks[b].type = "code"
       /\ out[k].blocks[b - 1].type = "text"
       /\ Len(out[k].blocks[b].text) > max_chars
       /\ out[k].blocks[b].text = Fence \o <<"\n", "\n">> \o Fence

\* C29 (as claimed): a block is in at most two chunks, the chunk in which it
\* is first placed and the chunk right after it.
C29_AtMostTwoChunks ==
  cpc = "done" =>
    LET document_blocks == DocumentBlocks
    IN \A d \in 1..Len(document_blocks) :
         LET holding == ChunksHolding(document_blocks[d][1],
                                      document_blocks[d][2])
         IN /\ Cardinality(holding) <= 2
            /\ \A k \in holding : \A m \in holding : m - k <= 1

\* the positions of block idx in chunk k
PositionsIn(k, idx) ==
  {i \in 1..Len(out[k].blocks) : out[k].blocks[i].idx = idx}

\* C29 (amended): a block is in the chunk in which it is first placed and,
\* as part of the seeded overlap, in zero or more of the chunks that follow
\* it without a gap, once in each; a block followed by n blocks of its
\* section is in at most n + 1 chunks.
C29_DuplicationInConsecutiveChunks ==
  cpc = "done" =>
    \A s \in 1..Len(sections) :
      LET section_blocks == split_section_blocks(sections[s].text)
      IN \A idx \in 1..Len(section_blocks) :
           LET holding == ChunksHolding(s, idx)
           IN /\ holding # {}
              /\ \A k \in holding : \A m \in holding :
                   \A between \in k..m : between \in holding
              /\ \A k \in holding :
                   /\ Cardinality(PositionsIn(k, idx)) = 1
                   /\ \A i \in PositionsIn(k, idx) :
                        i <= out[k].novl <=> (k - 1) \in holding
              /\ Cardinality(holding) <= Len(section_blocks) - idx + 1

\* a finished run in which a block is in three chunks, with overlap_chars
\* below max_chars and every chunk within max_chars
C29_Witness ==
  /\ cpc = "done" /\ overlap_chars < max_chars
  /\ \A k \in 1..Len(out) : Len(out[k].text) <= max_chars
  /\ \E k \in 3..Len(out) : \E idx \in 1..MaxLines :
       /\ out[k].sec = out[k - 2].sec
       /\ \A m \in {k - 2, k - 1, k} : PositionsIn(m, idx) # {}

\* the blocks of the emitted chunks, overlap copies included
AllChunkBlocks ==
  Flatten([k \in 1..Len(out) |->
    [i \in 1..Len(out[k].blocks) |->
       <<out[k].sec, out[k].blocks[i].idx, out[k].blocks[i].type,
         out[k].blocks[i].text>>]])

\* C30: with overlap_chars zero or negative nothing is seeded when a chunk
\* is closed, the chunks of a section are consecutive runs of its blocks
\* with every block in exactly one chunk, and a chunk of two or more blocks
\* is no longer than max_chars.
C30_ZeroOverlapPartition ==
  /\ overlap_chars <= 0
  /\ JustClosed => last_close.overlap = <<>>
  /\ novl = 0
  /\ \A k \in 1..Len(EmittedChunks) : EmittedChunks[k].novl = 0
  /\ cpc = "done" =>
       /\ AllChunkBlocks = DocumentBlocks
       /\ \A k \in 1..Len(out) :
            Len(out[k].blocks) >= 2 => Len(out[k].text) <= max_chars

\* a finished run with a negative overlap_chars, a chunk of two blocks and
\* a chunk closed before it
C30_Witness ==
  /\ cpc = "done" /\ overlap_chars < 0
  /\ \E k \in 2..Len(out) :
       /\ out[k].sec = out[k - 1].sec
       /\ Len(out[k].blocks) >= 2

(***************************************************************************)
(* Properties of split_documents_into_chunks (DocSpec).                    *)
(***************************************************************************)
\* the section title a chunk carries, <<>> when it carries none
SectionTitleOf(d) ==
  IF "section_title" \in DOMAIN d.metadata
  THEN d.metadata["section_title"] ELSE <<>>

\* C12 (as claimed): the example document with max_chars = 100 and
\* overlap_chars = 10 gives exactly two chunks, the first titled "A" with no
\* fence marker, the second titled "B" with exactly two fence markers.
C12_Example ==
  (/\ cpc = "done"
   /\ Len(documents) = 1 /\ documents[1].text = ExampleDocument
   /\ max_chars = 100 /\ overlap_chars = 10) =>
    /\ Len(chunked_documents) = 2
    /\ SectionTitleOf(chunked_documents[1]) = <<"A">>
    /\ FenceCount(chunked_documents[1].text) = 0
    /\ SectionTitleOf(chunked_documents[2]) = <<"B">>
    /\ FenceCount(chunked_documents[2].text) = 2

\* the chunks of document d, in emission order
ChunksOfDocument(d) ==
  SelectSeq(chunked_documents, LAMBDA c : c.doc = d)

\* the position in its section of the first block of c that is not overlap
FirstOwnBlock(c) == c.blocks[c.novl + 1].idx

\* C18: the chunks come document by document; within one document the
\* chunk_index values are 0, 1, 2, ... in emission order, across the section
\* boundaries, and the chunks follow the order of the sections and of the
\* blocks within a section.
C18_ChunkIndices ==
  /\ \A k \in 1..(Len(chunked_documents) - 1) :
       chunked_documents[k].doc <= chunked_documents[k + 1].doc
  /\ \A d \in 1..Len(documents) :
       LET cs == ChunksOfDocument(d)
       IN /\ \A k \in 1..Len(cs) : cs[k].metadata["chunk_index"] = k - 1
          /\ \A k \in 1..(Len(cs) - 1) :
               \/ cs[k].sec < cs[k + 1].sec
               \/ /\ cs[k].sec = cs[k + 1].sec
                  /\ FirstOwnBlock(cs[k]) < FirstOwnBlock(cs[k + 1])

\* two documents, the second with chunks 0, 1, 2, 3 over two sections
C18_Witness ==
  /\ cpc = "done" /\ Len(documents) = 2
  /\ ChunksOfDocument(1) # <<>>
  /\ LET cs == ChunksOfDocument(2)
     IN /\ Len(cs) = 4
        /\ cs[1].sec # cs[4].sec
        /\ cs[4].metadata["chunk_index"] = 3

\* the first line of a section's text when it is a heading, else <<>>
HeadingOf(section_text) ==
  LET ls == splitlines(section_text)
  IN IF ls # <<>> /\ is_heading(ls[1]) THEN strip(ls[1]) ELSE <<>>

\* the title of the section chunk c comes from
OwningTitle(c) ==
  HeadingOf(split_text_by_headings(documents[c.doc].text)[c.sec].text)

\* the keys and values the caller gave with the document chunk c comes from
GivenMetadata(c) ==
  IF documents[c.doc].metadata.none THEN <<>>
  ELSE documents[c.doc].metadata.items

\* C19 (as claimed): a chunk's metadata holds chunk_index and every key of
\* the document's metadata other than chunk_index and section_title,
\* unchanged; it holds section_title exactly when its section has a title,
\* and then with that title.
C19_MetadataPassThrough ==
  \A k \in 1..Len(chunked_documents) :
    LET c == chunked_documents[k]
        given == GivenMetadata(c)
    IN /\ "chunk_index" \in DOMAIN c.metadata
       /\ \A key \in DOMAIN given \ {"chunk_index", "section_title"} :
            key \in DOMAIN c.metadata /\ c.metadata[key] = given[key]
       /\ DOMAIN c.metadata \subseteq
            DOMAIN given \cup {"chunk_index", "section_title"}
       /\ "section_title" \in DOMAIN c.metadata <=> OwningTitle(c) # <<>>
       /\ OwningTitle(c) # <<>> =>
            c.metadata["section_title"] = OwningTitle(c)

\* the metadata of every chunk is the metadata given with its document,
\* overlaid with chunk_index and, for a titled section, section_title
ChunkMetadataOverlaid ==
  \A k \in 1..Len(chunked_documents) :
    LET c == chunked_documents[k]
        given == GivenMetadata(c)
        title == OwningTitle(c)
        set == IF title # <<>> THEN {"chunk_index", "section_title"}
               ELSE {"chunk_index"}
    IN /\ DOMAIN c.metadata = DOMAIN given \cup set
       /\ c.metadata["chunk_index"] =
            Len(SelectSeq(SubSeq(chunked_documents, 1, k - 1),
                          LAMBDA e : e.doc = c.doc))
       /\ title # <<>> => c.metadata["section_title"] = title
       /\ \A key \in DOMAIN given \ set : c.metadata[key] = given[key]

\* C19 (amended): a chunk's metadata is the document's metadata with
\* chunk_index set and, when the chunk's section has a title, section_title
\* set to that title (the heading line that opens the section); every other
\* key is as the caller gave it, a section_title of the caller's included
\* when the section has no title; the documents given are never changed.
C19_MetadataOverlay ==
  []ChunkMetadataOverlaid /\ [][documents' = documents]_vars

\* a document given with section_title and chunk_index of its own, chunked
\* into a preamble chunk and a titled chunk
C19_Witness ==
  /\ cpc = "done"
  /\ \E k \in 1..Len(chunked_documents) : \E j \in 1..Len(chunked_documents) :
       /\ chunked_documents[k].doc = chunked_documents[j].doc
       /\ "section_title" \in DOMAIN GivenMetadata(chunked_documents[k])
       /\ OwningTitle(chunked_documents[k]) = <<>>
       /\ OwningTitle(chunked_documents[j]) = LineHeading

\* 1 to 6 '#', whitespace, then non-space text of length 1 or more
AtxShape(s) ==
  \E h \in 1..6 : \E w \in 1..Len(s) :
    /\ Len(s) >= h + w + 1
    /\ AllIn(s, 1, h, {"#"})
    /\ AllIn(s, h + 1, h + w, RegexSpace)
    /\ s[h + w + 1] \notin RegexSpace

\* C24: outside a code fence every line of 1 to 6 '#', whitespace and
\* non-space text of length 1 or more starts a section titled by that line.
C24_AtxHeadingDetection ==
  cpc \in {"section", "block"} =>
    LET lines == splitlines(text)
    IN \A i \in 1..Len(lines) :
         (OutsideFence(lines, i) /\ AtxShape(strip(lines[i]))) =>
           \E k \in 1..Len(sections) : sections[k].title = strip(lines[i])

(***************************************************************************)
(* Properties of a request (ServeSpec).                                    *)
(***************************************************************************)
Kinds(es) == [i \in 1..Len(es) |-> es[i].kind]

Tokens(n) == [i \in 1..n |-> "token"]

\* the streaming response has been consumed to its end
StreamDone == entry = "route" /\ op = "chat_stream" /\ spc = "done"

\* Web3RAGEngine.chat has returned a result
ChatReturned == op = "chat" /\ result.answer # None

\* the candidates the sources are taken from
Candidates ==
  IF response.source_nodes # <<>> THEN response.source_nodes ELSE nodes

RECURSIVE KeepAtLeast(_, _)
KeepAtLeast(scores, t) ==
  IF scores = <<>> THEN <<>>
  ELSE (IF Head(scores) >= t THEN <<Head(scores)>> ELSE <<>>)
       \o KeepAtLeast(Tail(scores), t)

\* C5 (as claimed): a streaming call whose generation does not fail emits
\* its tokens, then one sources event, then one [DONE].
C5_StreamOrder ==
  (StreamDone /\ exc # "GenerationFailure") =>
    Kinds(events) = Tokens(tokens_sent) \o <<"sources", "done">>

\* C5 (amended): a streaming call in which no step fails (index
\* construction, retrieval, generation, the assembly of the sources) emits
\* its tokens, then exactly one sources event, then exactly one [DONE]; and
\* in every stream nothing follows [DONE].
C5_StreamOrderWhenNothingFails ==
  /\ (StreamDone /\ exc = None) =>
       Kinds(events) = Tokens(tokens_sent) \o <<"sources", "done">>
  /\ \A i \in 1..Len(events) : events[i].kind = "done" => i = Len(events)

\* the 3-token stream
C5_Witness ==
  /\ StreamDone /\ exc = None
  /\ Kinds(events) = <<"token", "token", "token", "sources", "done">>

\* C6: a failure after the stream has started stays inside the stream: the
\* tokens already sent, then exactly one error event, then [DONE] as the
\* last event.
C6_StreamFailureHandled ==
  (StreamDone /\ exc # None) =>
    /\ Kinds(events) = Tokens(tokens_sent) \o <<"error", "done">>
    /\ outcome = "stream_closed"
    /\ http = 200

\* the generator raises after one token
C6_Witness ==
  /\ StreamDone /\ exc = "GenerationFailure"
  /\ Kinds(events) = <<"token", "error", "done">>

\* C7 (as claimed): a direct chat(...) with a blank question or a mode
\* outside {learning, concise} fails, with no retrieval and no generation.
C7_ValidationPrecedesRetrieval ==
  (entry = "chat" /\ (strip(question) = <<>> \/ mode \notin ValidModes)) =>
    /\ retrieval_calls = 0
    /\ generation_calls = 0
    /\ spc = "done" => outcome = "raised"

\* C9: the sources chat returns are, with show_sources, exactly the
\* candidates scoring at least the threshold, in their order, the candidates
\* being the synthesizer's list or, when that is empty, the retrieved list;
\* without show_sources there are none.
C9_ThresholdFiltering ==
  ChatReturned =>
    [i \in 1..Len(result.sources) |-> result.sources[i].score]
      = IF show_sources
        THEN KeepAtLeast(Candidates, SimilarityThreshold)
        ELSE <<>>

\* scores 0.9, 0.5, 0.3, 0.1 give the sources 0.9, 0.5
C9_Witness ==
  /\ ChatReturned /\ show_sources
  /\ Candidates = <<90000, 50000, 30000, 10000>>
  /\ [i \in 1..Len(result.sources) |-> result.sources[i].score]
       = <<90000, 50000>>

ScoresOf(srcs) == [i \in 1..Len(srcs) |-> srcs[i].score]

Rounded(scores) == [i \in 1..Len(scores) |-> round4(scores[i])]

\* what the route discloses of the candidates ns under the threshold t
RECURSIVE DisclosedFrom(_, _)
DisclosedFrom(ns, t) ==
  IF ns = <<>> THEN <<>>
  ELSE (IF round4(Head(ns)) >= t
        THEN <<[text |-> preview(NodeText(Head(ns))),
                score |-> round4(Head(ns))]>>
        ELSE <<>>)
       \o DisclosedFrom(Tail(ns), t)

\* C13: a streaming call retrieves once, before any token; the sources event
\* comes after all the tokens, when the token stream has ended, and holds
\* the candidates of that one retrieval that pass the threshold, in their
\* order.
C13_DeferredSources ==
  op = "chat_stream" =>
    /\ retrieval_calls <= 1
    /\ tokens_sent > 0 => retrieval_calls = 1
    /\ \A i \in 1..Len(events) :
         events[i].kind = "sources" =>
           /\ retrieval_calls = 1
           /\ i = tokens_sent + 1
           /\ \A j \in 1..(i - 1) : events[j].kind = "token"
           /\ spc \in {"s_finally", "done"}
           /\ events[i].payload =
                DisclosedFrom(nodes, route_threshold(req_threshold))

\* three tokens, then sources that are a proper part of four candidates
C13_Witness ==
  /\ StreamDone /\ tokens_sent = 3 /\ Len(nodes) = 4
  /\ events[4].kind = "sources"
  /\ Len(events[4].payload) = 2

\* C14: a batch call whose retrieval or generation fails ends in one failure
\* the caller sees (the exception of a direct call, HTTP 500 of the route),
\* with no answer and no sources; retrieval and generation run at most once
\* each, and generation not at all after a failed retrieval.
C14_BatchFailure ==
  op = "chat" =>
    /\ retrieval_calls <= 1 /\ generation_calls <= 1
    /\ exc = "RetrievalFailure" => generation_calls = 0
    /\ (spc = "done" /\ exc \in {"RetrievalFailure", "GenerationFailure"}) =>
         /\ IF entry = "chat" THEN outcome = "raised"
            ELSE outcome = "http_error" /\ http = 500
         /\ result = NoResult
         /\ body = NoBody

\* a routed batch call whose generation fails
C14_Witness ==
  /\ entry = "route" /\ op = "chat" /\ spc = "done"
  /\ exc = "GenerationFailure"
  /\ retrieval_calls = 1 /\ generation_calls = 1 /\ http = 500

\* the threshold of the request: the value given, else 0.4
RequestedThreshold ==
  IF req_threshold.given THEN req_threshold.value ELSE DefaultRouteThreshold

\* C15 (as claimed): the sources of a request are exactly the candidates
\* scoring at least the threshold given with it (0.4 when none is given), on
\* the batch path (with show_sources) and on the streaming path.
C15_ThresholdOverride ==
  /\ (entry = "route" /\ outcome = "responded" /\ show_sources) =>
       ScoresOf(body.sources)
         = Rounded(KeepAtLeast(Candidates, RequestedThreshold))
  /\ (StreamDone /\ exc = None) =>
       \A i \in 1..Len(events) :
         events[i].kind = "sources" =>
           ScoresOf(events[i].payload)
             = Rounded(KeepAtLeast(nodes, RequestedThreshold))

\* C16 (as claimed): the text of every source is a prefix of its candidate's
\* text, at most 200 characters long.
C16_PreviewTruncation ==
  /\ ChatReturned =>
       \A i \in 1..Len(result.sources) :
         LET src == result.sources[i]
         IN /\ IsPrefix(src.text, NodeText(src.score))
            /\ Len(src.text) <= PreviewLength
  /\ \A i \in 1..Len(events) :
       events[i].kind = "sources" =>
         \A k \in 1..Len(events[i].payload) :
           LET src == events[i].payload[k]
           IN /\ \E j \in 1..Len(nodes) :
                   /\ round4(nodes[j]) = src.score
                   /\ IsPrefix(src.text, NodeText(nodes[j]))
              /\ Len(src.text) <= PreviewLength

\* C20 (as claimed): the timings of every result of chat are integers with
\* total_ms the sum of the three stage timings, none of them negative.
C20_TimingAdditivity ==
  ChatReturned =>
    LET t == result.timings
    IN /\ t.total_ms = t.retrieval_ms + t.llm_ms + t.postprocess_ms
       /\ t.retrieval_ms \in Nat
       /\ t.llm_ms \in Nat
       /\ t.postprocess_ms \in Nat

\* C27: a request to /chat whose mode, trimmed and lower-cased, is neither
\* 'learning' nor 'concise' is answered with status 400, as a blank question
\* is; status 500 is produced only when the engine lookup, the retrieval or
\* the generation fails.
C27_ErrorStatus ==
  (entry = "route" /\ spc = "done") =>
    /\ strip(question) = <<>> => http = 400
    /\ (strip(question) # <<>> /\ engine_set
          /\ lower(strip(mode)) \notin ValidModes) => http = 400
    /\ http = 500 => exc \in {"RuntimeError", "IndexUnavailable",
                              "RetrievalFailure", "GenerationFailure"}

\* C28: a streaming response consumed to its end is zero or more token
\* events, then exactly one event that is a sources event or an error event,
\* then exactly one [DONE]; a failure of chat_stream before the first token
\* gives error, [DONE]; and no sources event ever follows an error event.
C28_StreamShape ==
  /\ StreamDone =>
       \/ Kinds(events) = Tokens(tokens_sent) \o <<"sources", "done">>
       \/ Kinds(events) = Tokens(tokens_sent) \o <<"error", "done">>
  /\ (StreamDone /\ exc \in {"IndexUnavailable", "RetrievalFailure"}) =>
       Kinds(events) = <<"error", "done">>
  /\ \A i \in 1..Len(events) : \A j \in 1..Len(events) :
       (events[i].kind = "error" /\ events[j].kind = "sources") => j < i
  /\ Cardinality({i \in 1..Len(events) :
                    events[i].kind \in {"sources", "error"}}) <= 1

\* the retrieval of chat_stream fails: the stream is error, [DONE]
C28_Witness ==
  /\ StreamDone /\ exc = "RetrievalFailure" /\ tokens_sent = 0
  /\ Kinds(events) = <<"error", "done">>

(***************************************************************************)
(* Properties of concurrent first calls (InitSpec).                        *)
(***************************************************************************)
\* C8 (as claimed): build_index runs at most once.
C8_BuildAtMostOnce == build_calls <= 1

(***************************************************************************)
(* Properties of the agent lifecycle (AgentSpec).                          *)
(***************************************************************************)
\* C22: once stop() has returned on a running agent, the agent is not
\* running and no enabled mode is running, under every interleaving of
\* start(), the mode tasks and stop().
C22_StopStopsAgentAndModes ==
  stopped => /\ ~is_running
             /\ \A m \in agent_mode : ~mode_is_running[m]
====
